---- MODULE Spec2Model ----
(***************************************************************************)
(* The gateway's routing core (send_msg.go, package components): the       *)
(* session affinity table allocServers guarded by allocServersMutex, the   *)
(* login path VerifyToken, the logout path OnLogout and the per-message     *)
(* relay OnRecvFromClient, run by concurrent goroutines; and the outbound   *)
(* helpers SendMsgToClient and BroadcastMsgToClient (package utility).     *)
(***************************************************************************)
EXTENDS Integers, Sequences, FiniteSets, TLC

\* ------------------------------------------------------------------ bounds
Procs == {1, 2}
Accounts == {"alice", "bob"}
Tokens == {"t1", "t2"}
StoredTokens == {"t1"}
Payloads == {<<7, 9>>}
MaxInst == 2
\* The configured namespace offset (0: not configured) and the wire commands
\* a client sends: with offset 2 they decode to the service types 1, 2, 3, 4
\* (3, 5 and 7 with the local command 1).
Offsets == {0, 2}
Cmds == {3, 5, 7, 8}
\* The commands and the message the outbound helpers are called with.
ClientCmds == {5}
ClientMsgs == {<<1>>}
\* The width of a wire command in the codec check (the program's is 32 bits;
\* the arithmetic is the same at any width) and the largest offset it draws.
WordBits == 5
MaxOff == 3

\* ------------------------------------------------- constants of the program
\* common.Gateway, common.NodeTypeSize and protocol.CMD_GW_RELAY_CLIENT_MSG are
\* declared outside this file; the code fixes only how they are compared.
GatewayType == 1
NodeTypeSize == 4
CMD_GW_RELAY_CLIENT_MSG == 99

\* Node identifiers: service type + instance discriminator.
\* The registry knows instances of the first routed service type only; a node
\* of another type is never reported live.
Nodes == {<<GatewayType + 1, i>> : i \in 1..MaxInst}
Nil == <<>>

\* Raw allocation descriptors of the token record and their conversion.
ServerID2NodeID(v) == <<v \div 10, v % 10>>

\* Allocation lists a token record may carry (service type -> server id).
EmptyMap == [x \in {} |-> Nil]
MapSet(m, k, v) == [x \in DOMAIN m \cup {k} |-> IF x = k THEN v ELSE m[x]]
AllocChoices == {EmptyMap, MapSet(EmptyMap, 2, 22), MapSet(MapSet(EmptyMap, 2, 21), 3, 31)}
TokenRecords == [Token : StoredTokens, AllocServers : AllocChoices]
NoToken == [Token |-> "", AllocServers |-> EmptyMap]

\* What the last goroutine to take the write lock for an account installs.
NeverLocked == [kind |-> "never", allocs |-> EmptyMap]
LoggedOut == [kind |-> "logout", allocs |-> EmptyMap]
LoggedIn(m) == [kind |-> "login", allocs |-> m]

VARIABLES
    gwState,            \* "new" | "running" | "failed" | "crashed"
    MsgCmdOffset,       \* gw.ctx.Config.Common.MsgCmdOffset
    allocServers,       \* account -> (service type -> NodeID), partial
    allocServersMutex,  \* [w |-> writer announced or holding (0 none), r |-> readers]
    live,               \* nodes the registry reports live
    pc, account,        \* per goroutine: position and the account argument
    token, tokenObj, todo, ret,          \* VerifyToken locals
    cmd, data, nodeID, err, target, done,   \* OnRecvFromClient locals
    sends,              \* per goroutine: SendMsg invocations of the current call
    result,             \* per goroutine: what an outbound helper returned (bool, error)
    clientSends,        \* per goroutine: client-send primitive invocations of the call
    codec,              \* the codec check: inputs, wire command, decoded pair
    lastLock,           \* history: per account, what the last write-locker installs
    pin                 \* history: relay began after a completed login, no writer since

vars == <<gwState, MsgCmdOffset, allocServers, allocServersMutex, live, pc, account,
          token, tokenObj, todo, ret, cmd, data, nodeID, err, target, done, sends,
          result, clientSends, codec, lastLock, pin>>

vtVars == <<token, tokenObj, todo, ret>>
rcVars == <<cmd, data, nodeID, err, target, done, sends>>
cfgVars == <<gwState, MsgCmdOffset>>
scVars == <<result, clientSends>>

\* ------------------------------------------------------- pure helpers
\* A slip: the entry of an account that has one is kept and written into.
MakeEntry_Merge(tbl, a) ==
    [x \in DOMAIN tbl \cup {a} |-> IF x = a /\ a \notin DOMAIN tbl THEN EmptyMap ELSE tbl[x]]

\* A slip: the whole table is made anew, not the account's entry.
MakeEntry_Fresh(tbl, a) == [x \in {a} |-> EmptyMap]

\* line 120: gw.allocServers[account] = make(map[uint32]common.NodeID)
MakeEntry(tbl, a) == [x \in DOMAIN tbl \cup {a} |-> IF x = a THEN EmptyMap ELSE tbl[x]]

\* line 122: gw.allocServers[account][k] = utility.ServerID2NodeID(v)
SetAlloc(tbl, a, k, v) ==
    IF a \in DOMAIN tbl
    THEN [tbl EXCEPT ![a] = MapSet(tbl[a], k, ServerID2NodeID(v))]
    ELSE tbl

\* A slip: the logout resets the whole table.
DeleteEntry_All(tbl, a) == [x \in {} |-> EmptyMap]

\* A slip: the logout deletes nothing.
DeleteEntry_None(tbl, a) == tbl

\* line 131: delete(gw.allocServers, account)
DeleteEntry(tbl, a) == [x \in DOMAIN tbl \ {a} |-> tbl[x]]

\* A slip: an account with no entry is treated like one with no assignment.
LookupAlloc_NoEntryOk(tbl, a, nt) ==
    IF a \in DOMAIN tbl /\ nt \in DOMAIN tbl[a]
    THEN [id |-> tbl[a][nt], err |-> FALSE]
    ELSE [id |-> Nil, err |-> FALSE]

\* A slip: an entry with no assignment for the type is treated like no entry.
LookupAlloc_NoAssignErr(tbl, a, nt) ==
    IF a \in DOMAIN tbl /\ nt \in DOMAIN tbl[a]
    THEN [id |-> tbl[a][nt], err |-> FALSE]
    ELSE [id |-> Nil, err |-> TRUE]

\* lines 146-152: the closure's result (nodeID, err)
LookupAlloc(tbl, a, nt) ==
    IF a \in DOMAIN tbl
    THEN IF nt \in DOMAIN tbl[a]
         THEN [id |-> tbl[a][nt], err |-> FALSE]
         ELSE [id |-> Nil, err |-> FALSE]
    ELSE [id |-> Nil, err |-> TRUE]

\* A slip: the comparison is not made.
TokenMatches_Any(t, obj) == TRUE

\* line 114: token != tmpTokenObj.Token
TokenMatches(t, obj) == t = obj.Token

\* A slip: the quotient is rounded up.
DecodeType_RoundUp(c, off) == (c + off - 1) \div off

\* lines 136, 174: the command namespace decoding (uint32 quotient and
\* remainder: neither can leave the 32 bits of cmd)
DecodeType(c, off) == c \div off
LocalCmd(c, off) == c % off

\* A slip: the two bounds are taken as valid service types.
WrongNodeType_Loose(nt) == nt > NodeTypeSize \/ nt < GatewayType

\* line 137: nodeType >= common.NodeTypeSize || nodeType <= common.Gateway
WrongNodeType(nt) == nt >= NodeTypeSize \/ nt <= GatewayType

\* The registry: the node with that id if live; some live node of that type.
GetNode(id) == IF id \in live THEN id ELSE Nil
GetNodeOne(nt) ==
    IF \E n \in live : n[1] = nt THEN {n \in live : n[1] = nt} ELSE {Nil}

\* A slip: the sticky node is ignored, any live node of the type is taken.
ResolveTargets_AnyNode(id, nt) == GetNodeOne(nt)

\* A slip: a sticky node that is not live falls back to any live node.
ResolveTargets_Fallback(id, nt) ==
    IF id # Nil /\ GetNode(id) # Nil THEN {GetNode(id)} ELSE GetNodeOne(nt)

\* lines 158-163: the candidates for target
ResolveTargets(id, nt) == IF id # Nil THEN {GetNode(id)} ELSE GetNodeOne(nt)

\* A slip: a failed send gives the message back to the caller.
DoneAfterSend_Ok(ok) == ok

\* A slip: done is never set.
DoneAfterSend_Never(ok) == FALSE

\* lines 170, 176-180: done is set before the send and kept whatever SendMsg returns
DoneAfterSend(ok) == TRUE

\* A slip: the envelope carries the wire command.
RelayMsg_WireCmd(a, c, d, off) == [Account |-> a, CMD |-> c, Data |-> <<>> \o d]

\* lines 172-175: the relay envelope
RelayMsg(a, c, d, off) == [Account |-> a, CMD |-> LocalCmd(c, off), Data |-> <<>> \o d]

\* A slip: a failed send is tried again.
AfterSend_Retry(ok) == IF ok THEN "rc_done" ELSE "rc_send"

\* lines 176-180: after SendMsg the call returns, whatever SendMsg returned
AfterSend(ok) == "rc_done"

\* lines 13, 35: gotcp.Encode(cmd, msg) gives an error, or the bytes and the flag
NoErr == "nil"
EncodeFailed == [data |-> <<>>, flag |-> 0, err |-> "encode"]
Encode(c, m) == {EncodeFailed, [data |-> <<c>> \o m, flag |-> 1, err |-> NoErr]}

\* lines 14-16, 36-38: the error return when the encoding failed
EncodeError(e) == [ok |-> FALSE, err |-> e.err]

\* lines 17, 39: data = append(data, flag)
WithFlag(e) == Append(e.data, e.flag)

\* A slip: the primitive's answer is not looked at.
SendResult_Swallow(b) == [ok |-> TRUE, err |-> NoErr]

\* lines 18-21, 40-43: the result after the node's primitive returned b
SendResult(b) == IF b THEN [ok |-> TRUE, err |-> NoErr] ELSE [ok |-> FALSE, err |-> "send"]
NoResult == [ok |-> FALSE, err |-> NoErr]

\* The command codec of the wire protocol at the width of a wire command.
Word == 2 ^ WordBits
EncodeCmd(st, l, off) == (st * off + l) % Word
NoCodec == [pc |-> "off", st |-> 0, l |-> 0, wire |-> 0, dec |-> <<>>]

\* sync.RWMutex: a reader enters unless a writer has announced itself or holds
\* the lock; a writer announces itself when no other writer has, and enters
\* once the readers have left.
CanRLock_NoWait(mu) == TRUE
CanRLock(mu) == mu.w = 0
CanAnnounce(mu) == mu.w = 0
CanLock(mu) == mu.r = {}

\* The account's entry was installed by a login that has returned, and no
\* goroutine is inside a write section for the account.
Stable(a) ==
    /\ lastLock[a].kind = "login"
    /\ \A q \in Procs : account[q] = a => pc[q] \notin {"vt_range", "lo_unlock"}

Unpin(a) == [q \in Procs |-> IF account[q] = a THEN FALSE ELSE pin[q]]

\* ------------------------------------------------------------- Init
NewGateway ==
    /\ gwState = "new"
    /\ allocServers = [a \in {} |-> EmptyMap]
    /\ allocServersMutex = [w |-> 0, r |-> {}]
    /\ live = {}
    /\ pc = [p \in Procs |-> "idle"]
    /\ account = [p \in Procs |-> ""]
    /\ token = [p \in Procs |-> ""]
    /\ tokenObj = [p \in Procs |-> NoToken]
    /\ todo = [p \in Procs |-> {}]
    /\ ret = [p \in Procs |-> 0]
    /\ cmd = [p \in Procs |-> 0]
    /\ data = [p \in Procs |-> <<>>]
    /\ nodeID = [p \in Procs |-> Nil]
    /\ err = [p \in Procs |-> FALSE]
    /\ target = [p \in Procs |-> Nil]
    /\ done = [p \in Procs |-> FALSE]
    /\ sends = [p \in Procs |-> <<>>]
    /\ result = [p \in Procs |-> NoResult]
    /\ clientSends = [p \in Procs |-> <<>>]
    /\ lastLock = [a \in Accounts |-> NeverLocked]
    /\ pin = [p \in Procs |-> FALSE]

Init ==
    /\ NewGateway
    /\ MsgCmdOffset \in Offsets
    /\ codec = NoCodec

\* ------------------------------------------------------------- Start
\* lines 83-96
Start ==
    /\ gwState = "new"
    /\ \E isGateway, redisOk, initOk, startOk \in BOOLEAN :
         gwState' = IF ~isGateway \/ (redisOk /\ initOk /\ startOk)
                    THEN "running" ELSE "failed"
    /\ UNCHANGED <<codec, scVars, MsgCmdOffset, allocServers, allocServersMutex, live, pc, account,
                   vtVars, rcVars, lastLock, pin>>

\* The registry's view of a node changes (a node comes up or goes down).
RegistryChange ==
    /\ gwState = "running"
    /\ \E n \in Nodes : live' = IF n \in live THEN live \ {n} ELSE live \cup {n}
    /\ UNCHANGED <<codec, scVars, cfgVars, allocServers, allocServersMutex, pc, account,
                   vtVars, rcVars, lastLock, pin>>

\* ------------------------------------------------------- VerifyToken
\* A slip: the write lock is taken on entry, before the load.
VerifyTokenCall_Locked(p) ==
    /\ gwState = "running" /\ pc[p] = "idle"
    /\ CanAnnounce(allocServersMutex) /\ CanLock(allocServersMutex)
    /\ allocServersMutex' = [allocServersMutex EXCEPT !.w = p]
    /\ \E a \in Accounts, t \in Tokens :
         /\ account' = [account EXCEPT ![p] = a]
         /\ token' = [token EXCEPT ![p] = t]
    /\ pc' = [pc EXCEPT ![p] = "vt_load"]
    /\ UNCHANGED <<codec, scVars, cfgVars, allocServers, live, tokenObj, todo, ret,
                   rcVars, lastLock, pin>>

\* line 107: the call; line 108 builds the token object for the account
VerifyTokenCall(p) ==
    /\ gwState = "running" /\ pc[p] = "idle"
    /\ \E a \in Accounts, t \in Tokens :
         /\ account' = [account EXCEPT ![p] = a]
         /\ token' = [token EXCEPT ![p] = t]
    /\ pc' = [pc EXCEPT ![p] = "vt_load"]
    /\ UNCHANGED <<codec, scVars, cfgVars, allocServers, allocServersMutex, live, tokenObj, todo, ret,
                   rcVars, lastLock, pin>>

\* lines 109-117: the load returns (an error or a record), then the comparison
VerifyTokenLoad(p) ==
    /\ gwState = "running" /\ pc[p] = "vt_load"
    /\ \E obj \in TokenRecords \cup {NoToken} :
         /\ tokenObj' = [tokenObj EXCEPT ![p] = obj]
         /\ IF obj = NoToken
            THEN /\ ret' = [ret EXCEPT ![p] = 2]
                 /\ pc' = [pc EXCEPT ![p] = "vt_done"]
            ELSE IF ~TokenMatches(token[p], obj)
            THEN /\ ret' = [ret EXCEPT ![p] = 1]
                 /\ pc' = [pc EXCEPT ![p] = "vt_done"]
            ELSE /\ ret' = ret
                 /\ pc' = [pc EXCEPT ![p] = "vt_lock"]
    /\ UNCHANGED <<codec, scVars, cfgVars, allocServers, allocServersMutex, live, account, token, todo,
                   rcVars, lastLock, pin>>

\* line 118: Lock() announces the writer
VerifyTokenLock(p) ==
    /\ gwState = "running" /\ pc[p] = "vt_lock"
    /\ CanAnnounce(allocServersMutex)
    /\ allocServersMutex' = [allocServersMutex EXCEPT !.w = p]
    /\ pc' = [pc EXCEPT ![p] = "vt_wait"]
    /\ UNCHANGED <<codec, scVars, cfgVars, allocServers, live, account, vtVars, rcVars, lastLock, pin>>

\* lines 118-120: Lock() returns once the readers have left; the fresh map
VerifyTokenMake(p) ==
    /\ gwState = "running" /\ pc[p] = "vt_wait"
    /\ CanLock(allocServersMutex)
    /\ allocServers' = MakeEntry(allocServers, account[p])
    /\ todo' = [todo EXCEPT ![p] = DOMAIN tokenObj[p].AllocServers]
    /\ lastLock' = [lastLock EXCEPT ![account[p]] = LoggedIn(tokenObj[p].AllocServers)]
    /\ pin' = Unpin(account[p])
    /\ pc' = [pc EXCEPT ![p] = "vt_range"]
    /\ UNCHANGED <<codec, scVars, cfgVars, allocServersMutex, live, account, token, tokenObj, ret, rcVars>>

\* lines 121-123: one iteration of the range loop (the map's order is not fixed)
VerifyTokenRange(p) ==
    /\ gwState = "running" /\ pc[p] = "vt_range" /\ todo[p] # {}
    /\ \E k \in todo[p] :
         /\ allocServers' = SetAlloc(allocServers, account[p], k, tokenObj[p].AllocServers[k])
         /\ todo' = [todo EXCEPT ![p] = todo[p] \ {k}]
    /\ UNCHANGED <<codec, scVars, cfgVars, allocServersMutex, live, pc, account, token, tokenObj, ret,
                   rcVars, lastLock, pin>>

\* lines 124, 119: return 0, the deferred Unlock()
VerifyTokenReturn(p) ==
    /\ gwState = "running" /\ pc[p] = "vt_range" /\ todo[p] = {}
    /\ allocServersMutex' = [allocServersMutex EXCEPT !.w = 0]
    /\ ret' = [ret EXCEPT ![p] = 0]
    /\ pc' = [pc EXCEPT ![p] = "vt_done"]
    /\ UNCHANGED <<codec, scVars, cfgVars, allocServers, live, account, token, tokenObj, todo,
                   rcVars, lastLock, pin>>

\* ---------------------------------------------------------- OnLogout
\* line 128
OnLogoutCall(p) ==
    /\ gwState = "running" /\ pc[p] = "idle"
    /\ \E a \in Accounts : account' = [account EXCEPT ![p] = a]
    /\ pc' = [pc EXCEPT ![p] = "lo_lock"]
    /\ UNCHANGED <<codec, scVars, cfgVars, allocServers, allocServersMutex, live, vtVars, rcVars,
                   lastLock, pin>>

\* line 129: Lock() announces the writer
OnLogoutLock(p) ==
    /\ gwState = "running" /\ pc[p] = "lo_lock"
    /\ CanAnnounce(allocServersMutex)
    /\ allocServersMutex' = [allocServersMutex EXCEPT !.w = p]
    /\ pc' = [pc EXCEPT ![p] = "lo_wait"]
    /\ UNCHANGED <<codec, scVars, cfgVars, allocServers, live, account, vtVars, rcVars, lastLock, pin>>

\* lines 129-131: Lock() returns once the readers have left; the delete
OnLogoutDelete(p) ==
    /\ gwState = "running" /\ pc[p] = "lo_wait"
    /\ CanLock(allocServersMutex)
    /\ allocServers' = DeleteEntry(allocServers, account[p])
    /\ lastLock' = [lastLock EXCEPT ![account[p]] = LoggedOut]
    /\ pin' = Unpin(account[p])
    /\ pc' = [pc EXCEPT ![p] = "lo_unlock"]
    /\ UNCHANGED <<codec, scVars, cfgVars, allocServersMutex, live, account, vtVars, rcVars>>

\* lines 130, 132: the deferred Unlock() and the return
OnLogoutReturn(p) ==
    /\ gwState = "running" /\ pc[p] = "lo_unlock"
    /\ allocServersMutex' = [allocServersMutex EXCEPT !.w = 0]
    /\ pc' = [pc EXCEPT ![p] = "lo_done"]
    /\ UNCHANGED <<codec, scVars, cfgVars, allocServers, live, account, vtVars, rcVars, lastLock, pin>>

\* -------------------------------------------------- OnRecvFromClient
\* lines 135-140: the call, the decoding (a division by zero panics and ends
\* the process) and the range check
OnRecvFromClientCall(p) ==
    /\ gwState = "running" /\ pc[p] = "idle"
    /\ \E a \in Accounts, c \in Cmds, d \in Payloads :
         /\ account' = [account EXCEPT ![p] = a]
         /\ cmd' = [cmd EXCEPT ![p] = c]
         /\ data' = [data EXCEPT ![p] = d]
         /\ IF MsgCmdOffset = 0
            THEN /\ gwState' = "crashed"
                 /\ pc' = [pc EXCEPT ![p] = "rc_panic"]
                 /\ pin' = pin
            ELSE /\ gwState' = gwState
                 /\ IF WrongNodeType(DecodeType(c, MsgCmdOffset))
                    THEN /\ pc' = [pc EXCEPT ![p] = "rc_done"]
                         /\ pin' = pin
                    ELSE /\ pc' = [pc EXCEPT ![p] = "rc_rlock"]
                         /\ pin' = [pin EXCEPT ![p] = Stable(a)]
    /\ UNCHANGED <<codec, scVars, MsgCmdOffset, allocServers, allocServersMutex, live, vtVars,
                   nodeID, err, target, done, sends, lastLock>>

\* line 144: RLock()
OnRecvFromClientRLock(p) ==
    /\ gwState = "running" /\ pc[p] = "rc_rlock"
    /\ CanRLock(allocServersMutex)
    /\ allocServersMutex' = [allocServersMutex EXCEPT !.r = @ \cup {p}]
    /\ pc' = [pc EXCEPT ![p] = "rc_read"]
    /\ UNCHANGED <<codec, scVars, cfgVars, allocServers, live, account, vtVars, rcVars, lastLock, pin>>

\* lines 145-157: the lookup, the deferred RUnlock(), the error return
OnRecvFromClientLookup(p) ==
    /\ gwState = "running" /\ pc[p] = "rc_read"
    /\ LET r == LookupAlloc(allocServers, account[p], DecodeType(cmd[p], MsgCmdOffset))
       IN /\ nodeID' = [nodeID EXCEPT ![p] = r.id]
          /\ err' = [err EXCEPT ![p] = r.err]
          /\ pc' = [pc EXCEPT ![p] = IF r.err THEN "rc_done" ELSE "rc_resolve"]
    /\ allocServersMutex' = [allocServersMutex EXCEPT !.r = @ \ {p}]
    /\ UNCHANGED <<codec, scVars, cfgVars, allocServers, live, account, vtVars, cmd, data, target, done,
                   sends, lastLock, pin>>

\* lines 158-167: the target from the registry, the return when there is none
OnRecvFromClientResolve(p) ==
    /\ gwState = "running" /\ pc[p] = "rc_resolve"
    /\ \E t \in ResolveTargets(nodeID[p], DecodeType(cmd[p], MsgCmdOffset)) :
         /\ target' = [target EXCEPT ![p] = t]
         /\ pc' = [pc EXCEPT ![p] = IF t = Nil THEN "rc_done" ELSE "rc_send"]
    /\ UNCHANGED <<codec, scVars, cfgVars, allocServers, allocServersMutex, live, account, vtVars,
                   cmd, data, nodeID, err, done, sends, lastLock, pin>>

\* lines 170-180: done = true, the envelope, SendMsg (it succeeds or fails)
OnRecvFromClientSend(p) ==
    /\ gwState = "running" /\ pc[p] = "rc_send"
    /\ \E ok \in BOOLEAN :
         /\ done' = [done EXCEPT ![p] = DoneAfterSend(ok)]
         /\ sends' = [sends EXCEPT ![p] = Append(@,
                     [node |-> target[p], cmd |-> CMD_GW_RELAY_CLIENT_MSG,
                      msg |-> RelayMsg(account[p], cmd[p], data[p], MsgCmdOffset),
                      ok |-> ok])]
         /\ pc' = [pc EXCEPT ![p] = AfterSend(ok)]
    /\ UNCHANGED <<codec, scVars, cfgVars, allocServers, allocServersMutex, live, account, vtVars,
                   cmd, data, nodeID, err, target, lastLock, pin>>

\* --------------------------------------------------- SendMsgToClient
\* lines 12-17: the call and the encoding; an encoding error is returned
SendMsgToClientCall(p) ==
    /\ gwState = "running" /\ pc[p] = "idle"
    /\ \E a \in Accounts, c \in ClientCmds, m \in ClientMsgs : \E e \in Encode(c, m) :
         /\ account' = [account EXCEPT ![p] = a]
         /\ cmd' = [cmd EXCEPT ![p] = c]
         /\ IF e.err # NoErr
            THEN /\ result' = [result EXCEPT ![p] = EncodeError(e)]
                 /\ data' = data
                 /\ pc' = [pc EXCEPT ![p] = "sc_done"]
            ELSE /\ result' = result
                 /\ data' = [data EXCEPT ![p] = WithFlag(e)]
                 /\ pc' = [pc EXCEPT ![p] = "sc_send"]
    /\ UNCHANGED <<codec, clientSends, cfgVars, allocServers, allocServersMutex, live,
                   vtVars, nodeID, err, target, done, sends, lastLock, pin>>

\* lines 18-21: ctx.Node.SendMsgToClient (it reports true or false), the return
SendMsgToClientSend(p) ==
    /\ gwState = "running" /\ pc[p] = "sc_send"
    /\ \E b \in BOOLEAN :
         /\ clientSends' = [clientSends EXCEPT ![p] = Append(@,
                           [op |-> "SendMsgToClient", account |-> account[p],
                            cmd |-> cmd[p], data |-> data[p], ok |-> b])]
         /\ result' = [result EXCEPT ![p] = SendResult(b)]
    /\ pc' = [pc EXCEPT ![p] = "sc_done"]
    /\ UNCHANGED <<codec, cfgVars, allocServers, allocServersMutex, live, account,
                   vtVars, rcVars, lastLock, pin>>

\* ---------------------------------------------- BroadcastMsgToClient
\* lines 34-39: the call and the encoding; an encoding error is returned
BroadcastMsgToClientCall(p) ==
    /\ gwState = "running" /\ pc[p] = "idle"
    /\ \E c \in ClientCmds, m \in ClientMsgs : \E e \in Encode(c, m) :
         /\ cmd' = [cmd EXCEPT ![p] = c]
         /\ IF e.err # NoErr
            THEN /\ result' = [result EXCEPT ![p] = EncodeError(e)]
                 /\ data' = data
                 /\ pc' = [pc EXCEPT ![p] = "bc_done"]
            ELSE /\ result' = result
                 /\ data' = [data EXCEPT ![p] = WithFlag(e)]
                 /\ pc' = [pc EXCEPT ![p] = "bc_send"]
    /\ UNCHANGED <<codec, clientSends, cfgVars, allocServers, allocServersMutex, live,
                   account, vtVars, nodeID, err, target, done, sends, lastLock, pin>>

\* lines 40-43: ctx.Node.BroadcastMsgToClient (true or false), the return
BroadcastMsgToClientSend(p) ==
    /\ gwState = "running" /\ pc[p] = "bc_send"
    /\ \E b \in BOOLEAN :
         /\ clientSends' = [clientSends EXCEPT ![p] = Append(@,
                           [op |-> "BroadcastMsgToClient", account |-> "",
                            cmd |-> cmd[p], data |-> data[p], ok |-> b])]
         /\ result' = [result EXCEPT ![p] = SendResult(b)]
    /\ pc' = [pc EXCEPT ![p] = "bc_done"]
    /\ UNCHANGED <<codec, cfgVars, allocServers, allocServersMutex, live, account,
                   vtVars, rcVars, lastLock, pin>>

\* The caller has the result; the goroutine is free for its next call.
Return(p) ==
    /\ gwState = "running"
    /\ pc[p] \in {"vt_done", "lo_done", "rc_done", "sc_done", "bc_done"}
    /\ pc' = [pc EXCEPT ![p] = "idle"]
    /\ account' = [account EXCEPT ![p] = ""]
    /\ token' = [token EXCEPT ![p] = ""]
    /\ tokenObj' = [tokenObj EXCEPT ![p] = NoToken]
    /\ todo' = [todo EXCEPT ![p] = {}]
    /\ ret' = [ret EXCEPT ![p] = 0]
    /\ cmd' = [cmd EXCEPT ![p] = 0]
    /\ data' = [data EXCEPT ![p] = <<>>]
    /\ nodeID' = [nodeID EXCEPT ![p] = Nil]
    /\ err' = [err EXCEPT ![p] = FALSE]
    /\ target' = [target EXCEPT ![p] = Nil]
    /\ done' = [done EXCEPT ![p] = FALSE]
    /\ sends' = [sends EXCEPT ![p] = <<>>]
    /\ result' = [result EXCEPT ![p] = NoResult]
    /\ clientSends' = [clientSends EXCEPT ![p] = <<>>]
    /\ pin' = [pin EXCEPT ![p] = FALSE]
    /\ UNCHANGED <<codec, cfgVars, allocServers, allocServersMutex, live, lastLock>>

Next ==
    \/ Start
    \/ RegistryChange
    \/ \E p \in Procs : VerifyTokenCall(p)
    \/ \E p \in Procs : VerifyTokenLoad(p)
    \/ \E p \in Procs : VerifyTokenLock(p)
    \/ \E p \in Procs : VerifyTokenMake(p)
    \/ \E p \in Procs : VerifyTokenRange(p)
    \/ \E p \in Procs : VerifyTokenReturn(p)
    \/ \E p \in Procs : OnLogoutCall(p)
    \/ \E p \in Procs : OnLogoutLock(p)
    \/ \E p \in Procs : OnLogoutDelete(p)
    \/ \E p \in Procs : OnLogoutReturn(p)
    \/ \E p \in Procs : OnRecvFromClientCall(p)
    \/ \E p \in Procs : OnRecvFromClientRLock(p)
    \/ \E p \in Procs : OnRecvFromClientLookup(p)
    \/ \E p \in Procs : OnRecvFromClientResolve(p)
    \/ \E p \in Procs : OnRecvFromClientSend(p)
    \/ \E p \in Procs : SendMsgToClientCall(p)
    \/ \E p \in Procs : SendMsgToClientSend(p)
    \/ \E p \in Procs : BroadcastMsgToClientCall(p)
    \/ \E p \in Procs : BroadcastMsgToClientSend(p)
    \/ \E p \in Procs : Return(p)

Spec == Init /\ [][Next]_vars

\* ------------------------------------------------- the command codec
\* A sender encodes a service type and a local command; the gateway decodes
\* the wire command as lines 136 and 174 do.
CodecInit ==
    /\ NewGateway
    /\ MsgCmdOffset \in 1..MaxOff
    /\ \E st \in 0..(Word - 1), l \in 0..(MaxOff - 1) :
         /\ l < MsgCmdOffset
         /\ codec = [pc |-> "in", st |-> st, l |-> l, wire |-> 0, dec |-> <<>>]

CodecEncode ==
    /\ codec.pc = "in"
    /\ codec' = [codec EXCEPT !.pc = "wire",
                              !.wire = EncodeCmd(codec.st, codec.l, MsgCmdOffset)]
    /\ UNCHANGED <<cfgVars, allocServers, allocServersMutex, live, pc, account,
                   vtVars, rcVars, scVars, lastLock, pin>>

CodecDecode ==
    /\ codec.pc = "wire"
    /\ codec' = [codec EXCEPT !.pc = "out",
                              !.dec = <<DecodeType(codec.wire, MsgCmdOffset),
                                        LocalCmd(codec.wire, MsgCmdOffset)>>]
    /\ UNCHANGED <<cfgVars, allocServers, allocServersMutex, live, pc, account,
                   vtVars, rcVars, scVars, lastLock, pin>>

CodecNext == CodecEncode \/ CodecDecode

SpecCodec == CodecInit /\ [][CodecNext]_vars

\* ------------------------------------------------------------ claims
\* The service type a relay decodes (defined when the offset is not zero).
NType(p) == DecodeType(cmd[p], MsgCmdOffset)
InRange(nt) == nt > GatewayType /\ nt < NodeTypeSize

\* The steps of a relay: its table lookup, its target resolution, its send.
LookupStep(p) == pc[p] = "rc_read" /\ pc'[p] # "rc_read"
ResolveStep(p) == pc[p] = "rc_resolve" /\ pc'[p] # "rc_resolve"
SendStep(p) == pc[p] = "rc_send" /\ pc'[p] # "rc_send"

\* The account's entry is absent or is the whole allocation list of the login
\* that last took the write lock.
AbsentOrComplete(a) ==
    a \in DOMAIN allocServers =>
        /\ lastLock[a].kind = "login"
        /\ allocServers[a] = [k \in DOMAIN lastLock[a].allocs |->
                                <<lastLock[a].allocs[k] \div 10, lastLock[a].allocs[k] % 10>>]

\* C1: whatever the interleaving with VerifyToken and OnLogout, the table
\* lookup of OnRecvFromClient finds for its account no entry or the complete
\* allocation set of one successful VerifyToken, never a part of the record
\* being installed (the fresh empty map, a strict subset of its types).
C1_LookupSeesWholeEntry ==
    [][\A p \in Procs : LookupStep(p) => AbsentOrComplete(account[p])]_vars

\* C1 witness: a login is half way through installing a record with two
\* allocations while a relay of the same account waits for the read lock.
C1_Witness ==
    \E p, q \in Procs :
        /\ pc[p] = "rc_rlock" /\ pc[q] = "vt_range" /\ account[p] = account[q]
        /\ Cardinality(DOMAIN tokenObj[q].AllocServers) = 2
        /\ Cardinality(todo[q]) = 1
        /\ Cardinality(DOMAIN allocServers[account[q]]) = 1

\* The node the account is pinned to for the relay's service type, Nil if none.
PinnedNode(p) ==
    IF pin[p] /\ NType(p) \in DOMAIN lastLock[account[p]].allocs
    THEN <<lastLock[account[p]].allocs[NType(p)] \div 10,
           lastLock[account[p]].allocs[NType(p)] % 10>>
    ELSE Nil

\* C2: after VerifyToken returned 0 for a record with T -> N, with no OnLogout
\* or VerifyToken write for the account since, a relay of type T resolves to
\* N when the registry reports N live, and its envelope goes to N and to no
\* other node, even when other nodes of type T are live.
C2_StickyRoute ==
    [][\A p \in Procs :
         (MsgCmdOffset # 0 /\ pc[p] \in {"rc_resolve", "rc_send"} /\ PinnedNode(p) # Nil) =>
            /\ (ResolveStep(p) /\ PinnedNode(p) \in live) =>
                   (target'[p] = PinnedNode(p) /\ pc'[p] = "rc_send")
            /\ SendStep(p) =>
                   /\ target[p] = PinnedNode(p)
                   /\ Len(sends'[p]) = 1
                   /\ sends'[p][1].node = PinnedNode(p)]_vars

\* C2 witness: a pinned relay has sent its envelope to the sticky node while
\* another node of the same type is live.
C2_Witness ==
    \E p \in Procs :
        /\ pc[p] = "rc_done" /\ PinnedNode(p) # Nil
        /\ Len(sends[p]) = 1 /\ sends[p][1].node = PinnedNode(p)
        /\ \E n \in live : n # PinnedNode(p) /\ n[1] = NType(p)

\* The steps a VerifyToken makes before it takes the lock, and the return of
\* a failed one.
VerifyNoLockStep(p) ==
    \/ pc[p] = "idle" /\ pc'[p] = "vt_load"
    \/ pc[p] = "vt_load" /\ pc'[p] # "vt_load"
    \/ pc[p] = "vt_done" /\ ret[p] # 0 /\ pc'[p] = "idle"

\* C3: a failed verification never changes the affinity table; the result is
\* 2 when the load fails, 1 when the load succeeds and the tokens differ, and
\* the call goes on to the write (and returns 0) only when the load succeeds
\* and the tokens are equal.
C3_FailedVerifyKeepsTable ==
    [][\A p \in Procs :
         /\ VerifyNoLockStep(p) => allocServers' = allocServers
         /\ (pc[p] = "vt_load" /\ pc'[p] # "vt_load") =>
               IF tokenObj'[p] = NoToken
               THEN pc'[p] = "vt_done" /\ ret'[p] = 2
               ELSE IF token[p] # tokenObj'[p].Token
               THEN pc'[p] = "vt_done" /\ ret'[p] = 1
               ELSE pc'[p] = "vt_lock"
         /\ (pc'[p] = "vt_done" /\ ret'[p] = 0) =>
               (tokenObj'[p] # NoToken /\ token'[p] = tokenObj'[p].Token)]_vars

\* C3 witness: a verification with a wrong token has returned 1 and the
\* account's earlier entry, with its allocations, is still in the table.
C3_Witness ==
    \E p \in Procs :
        /\ pc[p] = "vt_done" /\ ret[p] = 1
        /\ tokenObj[p].AllocServers = EmptyMap
        /\ account[p] \in DOMAIN allocServers
        /\ Cardinality(DOMAIN allocServers[account[p]]) = 2

\* No goroutine is inside VerifyToken's write section for the account.
NoInstallRunning(a) == \A q \in Procs : account[q] = a => pc[q] # "vt_range"

\* C4: VerifyToken replaces and does not merge: once the login that last took
\* the lock for an account has left its write section, the account's entry
\* maps exactly the service types of that login's record to their node
\* identifiers, whatever was there before and however many logins interleaved.
C4_ReplaceNotMerge ==
    \A a \in Accounts :
        (lastLock[a].kind = "login" /\ NoInstallRunning(a)) =>
            /\ a \in DOMAIN allocServers
            /\ DOMAIN allocServers[a] = DOMAIN lastLock[a].allocs
            /\ \A k \in DOMAIN lastLock[a].allocs :
                 allocServers[a][k] = <<lastLock[a].allocs[k] \div 10, lastLock[a].allocs[k] % 10>>

\* C4 witness: a login has returned 0 with a record that has no allocation for
\* a type the account's earlier entry had (a relay still holds the node it
\* read from that entry), and the type is gone from the entry.
C4_Witness ==
    \E p, q \in Procs :
        /\ pc[p] = "vt_done" /\ ret[p] = 0 /\ account[q] = account[p]
        /\ pc[q] \in {"rc_resolve", "rc_done"} /\ nodeID[q] # Nil
        /\ MsgCmdOffset # 0
        /\ account[p] \in DOMAIN allocServers
        /\ NType(q) \notin DOMAIN allocServers[account[p]]
        /\ allocServers[account[p]] # EmptyMap

\* C5: OnLogout removes the account's entry whatever the account's state:
\* after the delete the account has no entry, the entries of all other
\* accounts are as before, and a logout of an account with no entry (a second
\* logout in a row among them) leaves the table as it was.
C5_LogoutRemoves ==
    [][\A p \in Procs :
         /\ (pc[p] = "lo_wait" /\ pc'[p] # "lo_wait") =>
               /\ account[p] \notin DOMAIN allocServers'
               /\ \A b \in Accounts \ {account[p]} :
                    /\ (b \in DOMAIN allocServers') = (b \in DOMAIN allocServers)
                    /\ b \in DOMAIN allocServers => allocServers'[b] = allocServers[b]
               /\ account[p] \notin DOMAIN allocServers => allocServers' = allocServers
         /\ pc[p] \in {"lo_unlock"} => account[p] \notin DOMAIN allocServers]_vars

\* C5 witness: a logout has deleted the entry of an account that had one (a
\* relay still holds a node it read from it) while the other account keeps
\* its allocations.
C5_Witness ==
    \E p, q \in Procs : \E b \in Accounts :
        /\ pc[p] = "lo_unlock" /\ account[q] = account[p]
        /\ pc[q] = "rc_resolve" /\ nodeID[q] # Nil
        /\ b # account[p] /\ b \in DOMAIN allocServers /\ allocServers[b] # EmptyMap

\* The logout that last took the write lock for the account has completed and
\* no login has written the account since.
LogoutCompleted(a) ==
    /\ lastLock[a].kind = "logout"
    /\ \A q \in Procs : account[q] = a => pc[q] # "lo_unlock"

\* C6: once OnLogout has completed for an account, a relay of that account
\* whose lookup comes afterwards, with no successful VerifyToken in between,
\* sends nothing to a node the removed entry had assigned: it finds no entry
\* and ends with no send at all, whether or not a node of the type is live.
C6_NoStaleRouteAfterLogout ==
    [][\A p \in Procs :
         (LookupStep(p) /\ LogoutCompleted(account[p])) =>
            /\ pc'[p] = "rc_done" /\ err'[p] /\ nodeID'[p] = Nil
            /\ sends'[p] = <<>> /\ done'[p] = FALSE]_vars

\* C6 witness: after a completed logout a relay of the account has ended with
\* no send, while another relay of the account still holds the live node that
\* the removed entry had assigned.
C6_Witness ==
    \E p, q \in Procs :
        /\ pc[p] = "rc_done" /\ err[p] /\ sends[p] = <<>>
        /\ LogoutCompleted(account[p]) /\ account[q] = account[p]
        /\ pc[q] = "rc_send" /\ nodeID[q] # Nil /\ nodeID[q] \in live

\* C7 as stated: every message whose service type passes the range check is
\* claimed (the call returns true), also when the account has no entry and
\* when no target node is found.
C7_Original ==
    \A p \in Procs :
        (MsgCmdOffset # 0 /\ pc[p] = "rc_done" /\ InRange(NType(p))) => done[p] = TRUE

\* C7 amended: a message whose service type passes the range check is claimed
\* (the call returns true) once a target node was found, also when the send to
\* it fails; the call returns false when the account has no entry and when no
\* target node is found.
C7_ClaimedOnceTargetFound ==
    \A p \in Procs :
        (MsgCmdOffset # 0 /\ pc[p] = "rc_done" /\ InRange(NType(p))) =>
            /\ err[p] => done[p] = FALSE
            /\ (~err[p] /\ target[p] = Nil) => done[p] = FALSE
            /\ target[p] # Nil => done[p] = TRUE

\* C7 witness: the send to the target failed and the call returned true.
C7_Witness ==
    \E p \in Procs :
        /\ pc[p] = "rc_done" /\ target[p] # Nil
        /\ Len(sends[p]) = 1 /\ sends[p][1].ok = FALSE /\ done[p] = TRUE

\* Some node of the type is live in the registry.
HasLive(nt) == \E n \in live : n[1] = nt

\* C8 as stated: a relay of a valid type T for an account with no entry, with
\* a node of type T live, goes on to resolve a live node of type T (the
\* message is not dropped).
C8_Original ==
    [][\A p \in Procs :
         (LookupStep(p) /\ account[p] \notin DOMAIN allocServers /\ HasLive(NType(p))) =>
            pc'[p] = "rc_resolve"]_vars

\* C8 amended: for an account that has an entry with no assignment for the
\* valid type T, with a node of type T live when the target is resolved, the
\* relay resolves to some live node of type T and sends the envelope to it;
\* for an account with no entry the message is dropped with no send, also
\* when a node of type T is live.
C8_FallbackNeedsEntry ==
    [][\A p \in Procs :
         /\ (LookupStep(p) /\ account[p] \notin DOMAIN allocServers) =>
               /\ pc'[p] = "rc_done" /\ err'[p]
               /\ sends'[p] = <<>> /\ done'[p] = FALSE
         /\ (LookupStep(p) /\ account[p] \in DOMAIN allocServers
                /\ NType(p) \notin DOMAIN allocServers[account[p]]) =>
               (pc'[p] = "rc_resolve" /\ nodeID'[p] = Nil /\ ~err'[p])
         /\ (ResolveStep(p) /\ nodeID[p] = Nil /\ HasLive(NType(p))) =>
               /\ target'[p] \in live /\ target'[p][1] = NType(p)
               /\ pc'[p] = "rc_send"
         /\ (SendStep(p) /\ nodeID[p] = Nil) =>
               /\ Len(sends'[p]) = 1 /\ sends'[p][1].node = target[p]
               /\ target[p][1] = NType(p)]_vars

\* C8 witness: a relay of an account with no entry was dropped with no send
\* while a node of its type was live.
C8_Witness ==
    \E p \in Procs :
        /\ pc[p] = "rc_done" /\ err[p] /\ sends[p] = <<>>
        /\ account[p] \notin DOMAIN allocServers
        /\ HasLive(NType(p))

\* C9: for an account with an entry but no assignment for the type T (an
\* empty allocation map among them) the envelope goes to the node the registry
\* returns for any live node of type T; with no live node of type T nothing is
\* sent and the message is dropped; an account with no entry and no live node
\* of type T is dropped with no send as well.
C9_NoAssignmentPicksAny ==
    [][\A p \in Procs :
         /\ (ResolveStep(p) /\ nodeID[p] = Nil) =>
               IF HasLive(NType(p))
               THEN target'[p] \in {n \in live : n[1] = NType(p)} /\ pc'[p] = "rc_send"
               ELSE /\ target'[p] = Nil /\ pc'[p] = "rc_done"
                    /\ sends'[p] = <<>> /\ done'[p] = FALSE
         /\ (SendStep(p) /\ nodeID[p] = Nil) =>
               sends'[p] = <<[node |-> target[p], cmd |-> sends'[p][1].cmd,
                              msg |-> sends'[p][1].msg, ok |-> sends'[p][1].ok]>>
         /\ (LookupStep(p) /\ account[p] \in DOMAIN allocServers
                /\ NType(p) \notin DOMAIN allocServers[account[p]]) =>
               (pc'[p] = "rc_resolve" /\ nodeID'[p] = Nil)
         /\ (LookupStep(p) /\ account[p] \notin DOMAIN allocServers /\ ~HasLive(NType(p))) =>
               (pc'[p] = "rc_done" /\ sends'[p] = <<>>)]_vars

\* C9 witness: the account's entry is an empty allocation map and the relay
\* has sent its envelope to a live node of its type.
C9_Witness ==
    \E p \in Procs :
        /\ pc[p] = "rc_done" /\ account[p] \in DOMAIN allocServers
        /\ allocServers[account[p]] = EmptyMap /\ pin[p]
        /\ nodeID[p] = Nil /\ Len(sends[p]) = 1
        /\ sends[p][1].node \in live /\ sends[p][1].node[1] = NType(p)

\* The call of OnRecvFromClient up to its range check.
RelayCallStep(p) == pc[p] = "idle" /\ pc'[p] \in {"rc_done", "rc_rlock"}

\* C10: a message whose service type cmd / OFFSET is not strictly between the
\* gateway's own type and NodeTypeSize is dropped: no lookup is made, no node
\* is resolved, nothing is sent, the table is unchanged and the call returns
\* false; a message whose type is strictly inside goes on to the lookup.
C10_RangeCheck ==
    [][\A p \in Procs :
         (MsgCmdOffset # 0 /\ RelayCallStep(p)) =>
            IF (cmd'[p] \div MsgCmdOffset) > GatewayType
                  /\ (cmd'[p] \div MsgCmdOffset) < NodeTypeSize
            THEN pc'[p] = "rc_rlock"
            ELSE /\ pc'[p] = "rc_done" /\ done'[p] = FALSE
                 /\ nodeID'[p] = Nil /\ ~err'[p] /\ target'[p] = Nil
                 /\ sends'[p] = <<>>
                 /\ allocServers' = allocServers
                 /\ allocServersMutex' = allocServersMutex]_vars

\* C10 witness: a message of the gateway's own type and one of type
\* NodeTypeSize were both dropped, for an account that has an entry.
C10_Witness ==
    \E p, q \in Procs :
        /\ MsgCmdOffset # 0 /\ pc[p] = "rc_done" /\ pc[q] = "rc_done"
        /\ NType(p) = GatewayType /\ NType(q) = NodeTypeSize
        /\ ~done[p] /\ ~done[q] /\ sends[p] = <<>> /\ sends[q] = <<>>
        /\ account[p] \in DOMAIN allocServers /\ account[q] = account[p]

\* C11: every envelope a relay forwards carries the caller's account, the
\* local command cmd % OFFSET and the caller's payload, byte for byte; it is
\* sent once, under the relay command code and not the client's wire command;
\* and the table key and the type of the chosen node are cmd / OFFSET of the
\* same command.
C11_EnvelopeVerbatim ==
    [][\A p \in Procs :
         /\ SendStep(p) =>
               /\ sends'[p] = <<[node |-> target[p], cmd |-> CMD_GW_RELAY_CLIENT_MSG,
                                 msg |-> [Account |-> account[p],
                                          CMD |-> cmd[p] % MsgCmdOffset,
                                          Data |-> data[p]],
                                 ok |-> sends'[p][1].ok]>>
               /\ sends'[p][1].cmd # cmd[p]
               /\ Len(sends'[p][1].msg.Data) = Len(data[p])
               /\ <<account'[p], cmd'[p], data'[p]>> = <<account[p], cmd[p], data[p]>>
         /\ (LookupStep(p) /\ account[p] \in DOMAIN allocServers
                /\ (cmd[p] \div MsgCmdOffset) \in DOMAIN allocServers[account[p]]) =>
               nodeID'[p] = allocServers[account[p]][cmd[p] \div MsgCmdOffset]
         /\ (ResolveStep(p) /\ nodeID[p] = Nil /\ target'[p] # Nil) =>
               target'[p][1] = cmd[p] \div MsgCmdOffset
         /\ (ResolveStep(p) /\ nodeID[p] # Nil /\ target'[p] # Nil) =>
               target'[p] = nodeID[p]]_vars

\* C11 witness: an envelope with a non-zero local command and a payload of
\* two bytes has been forwarded for a wire command that differs from both the
\* local command and the relay command code.
C11_Witness ==
    \E p \in Procs :
        /\ pc[p] = "rc_done" /\ Len(sends[p]) = 1
        /\ sends[p][1].msg.Account = account[p]
        /\ sends[p][1].msg.CMD = 1 /\ cmd[p] = 5
        /\ sends[p][1].msg.Data = <<7, 9>>
        /\ sends[p][1].cmd = CMD_GW_RELAY_CLIENT_MSG

\* C12 as stated: for every service type s and every local command l below
\* the offset, decoding the wire command encode(s, l) gives back (s, l).
C12_Original ==
    codec.pc = "out" => codec.dec = <<codec.st, codec.l>>

\* C12 amended: for every service type s and every local command l below the
\* offset such that s * OFFSET + l fits the wire command's width, the wire
\* command is s * OFFSET + l and decoding it gives back (s, l).
C12_RoundTripInRange ==
    (codec.pc = "out" /\ codec.st * MsgCmdOffset + codec.l < 2 ^ WordBits) =>
        /\ codec.wire = codec.st * MsgCmdOffset + codec.l
        /\ codec.dec = <<codec.st, codec.l>>

\* C12 witness: a wire command with a non-zero service type and a non-zero
\* local command, under the largest offset, has been decoded to its inputs.
C12_Witness ==
    /\ codec.pc = "out" /\ MsgCmdOffset = MaxOff
    /\ codec.st = 7 /\ codec.l = MaxOff - 1
    /\ codec.st * MsgCmdOffset + codec.l < 2 ^ WordBits
    /\ codec.dec = <<7, MaxOff - 1>>

\* C13: a relay invokes SendMsg at most once and returns right after it,
\* whether the send failed or not; the step of the send changes nothing but
\* the relay's own result (the table, the lock, the registry view and the
\* other goroutines are as before); and when the relay has returned, its
\* goroutine starts the next message from the same state as after a success.
C13_SendFailureLocal ==
    [][\A p \in Procs :
         /\ sends'[p] # sends[p] =>
               \/ /\ pc[p] = "rc_send" /\ pc'[p] = "rc_done"
                  /\ sends[p] = <<>> /\ Len(sends'[p]) = 1
                  /\ allocServers' = allocServers
                  /\ allocServersMutex' = allocServersMutex
                  /\ live' = live /\ gwState' = gwState
                  /\ \A q \in Procs \ {p} : pc'[q] = pc[q] /\ sends'[q] = sends[q]
               \/ pc[p] = "rc_done" /\ pc'[p] = "idle" /\ sends'[p] = <<>>
         /\ (pc[p] = "rc_done" /\ pc'[p] # "rc_done") =>
               /\ pc'[p] = "idle"
               /\ <<nodeID'[p], target'[p], err'[p], done'[p]>> = <<Nil, Nil, FALSE, FALSE>>
               /\ allocServers' = allocServers
               /\ allocServersMutex' = allocServersMutex]_vars

\* C13 witness: of two relays of one account that chose the same node, one
\* has had its send fail and the other has had its send succeed, and the
\* account's entry is in the table.
C13_Witness ==
    \E p, q \in Procs :
        /\ pc[p] = "rc_done" /\ pc[q] = "rc_done" /\ account[p] = account[q]
        /\ Len(sends[p]) = 1 /\ Len(sends[q]) = 1
        /\ ~sends[p][1].ok /\ sends[q][1].ok
        /\ sends[p][1].node = sends[q][1].node
        /\ account[p] \in DOMAIN allocServers

\* C14: a VerifyToken that is loading the token record neither holds nor has
\* announced itself for the lock, so a lookup, a logout or another login of
\* any account takes the free lock; a VerifyToken has announced itself or
\* holds the write lock only with a loaded record whose token matched, and a
\* verification that failed has not the lock.
C14_NoLockDuringLoad ==
    \A p \in Procs :
        /\ pc[p] = "vt_load" =>
              /\ allocServersMutex.w # p /\ p \notin allocServersMutex.r
              /\ tokenObj[p] = NoToken
              /\ \A q \in Procs \ {p} :
                    /\ (pc[q] = "rc_rlock" /\ allocServersMutex.w = 0) =>
                          ENABLED OnRecvFromClientRLock(q)
                    /\ (pc[q] = "lo_lock" /\ allocServersMutex.w = 0) =>
                          ENABLED OnLogoutLock(q)
                    /\ (pc[q] = "vt_lock" /\ allocServersMutex.w = 0) =>
                          ENABLED VerifyTokenLock(q)
                    /\ (pc[q] \in {"lo_wait", "vt_wait"} /\ allocServersMutex.r = {}) =>
                          ENABLED (OnLogoutDelete(q) \/ VerifyTokenMake(q))
        /\ (pc[p] \in {"vt_lock", "vt_wait", "vt_range"}) =>
              /\ tokenObj[p] \in TokenRecords
              /\ token[p] = tokenObj[p].Token
        /\ (pc[p] \in {"vt_load", "vt_lock"} \/ (pc[p] = "vt_done" /\ ret[p] # 0)) =>
              allocServersMutex.w # p

\* C14 witness: while one VerifyToken is in its load, another goroutine holds
\* the write lock inside the login of the same account.
C14_Witness ==
    \E p, q \in Procs :
        /\ pc[p] = "vt_load" /\ pc[q] = "vt_range" /\ account[p] = account[q]
        /\ allocServersMutex.w = q /\ todo[q] # {}

\* C15: a gateway whose namespace offset is zero never runs (Start returns
\* false), so no OnRecvFromClient is executed with the offset zero, and no
\* relay ends in a panic that takes the gateway down.
C15_ZeroOffsetRejected ==
    /\ MsgCmdOffset = 0 => gwState \in {"new", "failed"}
    /\ gwState # "crashed"
    /\ \A p \in Procs : pc[p] # "rc_panic"

\* C16: SendMsgToClient and BroadcastMsgToClient return (true, nil) exactly
\* when the encoding succeeded and the node's primitive reported true, and
\* (false, an error) otherwise; the primitive is invoked once when the
\* encoding succeeded and never when it failed, with the caller's account and
\* command and the encoded bytes.
C16_PassThrough ==
    \A p \in Procs :
        /\ pc[p] \in {"sc_send", "bc_send"} =>
              clientSends[p] = <<>> /\ data[p] # <<>>
        /\ pc[p] \in {"sc_done", "bc_done"} =>
              /\ Len(clientSends[p]) = (IF data[p] = <<>> THEN 0 ELSE 1)
              /\ result[p].ok =
                    (data[p] # <<>> /\ Len(clientSends[p]) = 1 /\ clientSends[p][1].ok)
              /\ result[p].ok => result[p].err = "nil"
              /\ ~result[p].ok => result[p].err # "nil"
              /\ Len(clientSends[p]) = 1 =>
                    /\ clientSends[p][1].cmd = cmd[p]
                    /\ clientSends[p][1].data = data[p]
                    /\ clientSends[p][1].op =
                          (IF pc[p] = "sc_done" THEN "SendMsgToClient"
                                               ELSE "BroadcastMsgToClient")
                    /\ pc[p] = "sc_done" => clientSends[p][1].account = account[p]

\* C16 witness: a SendMsgToClient has returned (true, nil) after one
\* invocation of the primitive, and a BroadcastMsgToClient has returned
\* false with an error after its primitive reported false.
C16_Witness ==
    \E p, q \in Procs :
        /\ pc[p] = "sc_done" /\ result[p] = [ok |-> TRUE, err |-> "nil"]
        /\ Len(clientSends[p]) = 1 /\ clientSends[p][1].account = "bob"
        /\ pc[q] = "bc_done" /\ ~result[q].ok /\ result[q].err = "send"
        /\ Len(clientSends[q]) = 1 /\ ~clientSends[q][1].ok

\* An account's entry in a table: whether it is there, and its content.
EntryOf(tbl, a) == IF a \in DOMAIN tbl THEN <<TRUE, tbl[a]>> ELSE <<FALSE, EmptyMap>>

\* The positions from which a goroutine's step may write the table: inside the
\* write section of a login whose token matched, or of a logout.
WriterOf(p, a) ==
    /\ account[p] = a /\ allocServersMutex.w = p
    /\ \/ /\ pc[p] \in {"vt_wait", "vt_range"}
          /\ tokenObj[p] # NoToken /\ token[p] = tokenObj[p].Token
       \/ pc[p] = "lo_wait"

\* C17: an account's entry changes only in a step of a VerifyToken whose
\* token matched or of an OnLogout, called for that same account; every step
\* of OnRecvFromClient, of a VerifyToken before its lock (the failed ones
\* among them), of SendMsgToClient and of BroadcastMsgToClient, and every
\* return, leaves the whole table as it was.
C17_TableFrame ==
    [][/\ \A a \in Accounts :
            EntryOf(allocServers', a) # EntryOf(allocServers, a) =>
               \E p \in Procs : WriterOf(p, a) /\ (pc'[p] # pc[p] \/ todo'[p] # todo[p])
       /\ DOMAIN allocServers' \subseteq Accounts
       /\ \A p \in Procs :
            (pc'[p] # pc[p] /\ pc[p] \in {"idle", "vt_load", "vt_lock", "vt_done", "lo_lock",
                                         "lo_unlock", "lo_done",
                                         "rc_rlock", "rc_read", "rc_resolve", "rc_send",
                                         "rc_done", "sc_send", "sc_done", "bc_send",
                                         "bc_done"}) =>
               allocServers' = allocServers]_vars

\* C17 witness: a logout of alice has removed her entry and a relay of bob has
\* had its send fail, and bob's entry is still the two assignments of his
\* login.
C17_Witness ==
    \E p, q \in Procs :
        /\ pc[p] = "lo_unlock" /\ account[p] = "alice"
        /\ "alice" \notin DOMAIN allocServers /\ "bob" \in DOMAIN allocServers
        /\ DOMAIN allocServers["bob"] = {2, 3}
        /\ pc[q] = "rc_done" /\ account[q] = "bob"
        /\ Len(sends[q]) = 1 /\ ~sends[q][1].ok

\* C18: a relay that found a sticky assignment to a node the registry does
\* not report live finds no target and returns false having sent nothing,
\* whether or not another node of the type is live; the table, the stale
\* assignment included, is as it was.
C18_StaleStickyDrops ==
    [][\A p \in Procs :
         (ResolveStep(p) /\ nodeID[p] # Nil /\ nodeID[p] \notin live) =>
            /\ target'[p] = Nil /\ pc'[p] = "rc_done"
            /\ sends'[p] = <<>> /\ done'[p] = FALSE
            /\ allocServers' = allocServers]_vars

\* C18 witness: a relay has been dropped with nothing sent while its sticky
\* node is down, another node of the type is live and the account's entry
\* still holds the assignment.
C18_Witness ==
    \E p \in Procs :
        /\ pc[p] = "rc_done" /\ nodeID[p] # Nil /\ nodeID[p] \notin live
        /\ target[p] = Nil /\ sends[p] = <<>> /\ ~done[p]
        /\ HasLive(NType(p))
        /\ account[p] \in DOMAIN allocServers
        /\ NType(p) \in DOMAIN allocServers[account[p]]
        /\ allocServers[account[p]][NType(p)] = nodeID[p]

\* A goroutine has started an operation that has not returned yet.
Busy(p) == pc[p] \notin {"idle", "vt_done", "lo_done", "rc_done", "sc_done", "bc_done"}

\* The steps of one goroutine inside its operations.
ProcStep(p) ==
    \/ VerifyTokenLoad(p) \/ VerifyTokenLock(p) \/ VerifyTokenMake(p)
    \/ VerifyTokenRange(p) \/ VerifyTokenReturn(p)
    \/ OnLogoutLock(p) \/ OnLogoutDelete(p) \/ OnLogoutReturn(p)
    \/ OnRecvFromClientRLock(p) \/ OnRecvFromClientLookup(p)
    \/ OnRecvFromClientResolve(p) \/ OnRecvFromClientSend(p)
    \/ SendMsgToClientSend(p) \/ BroadcastMsgToClientSend(p)

\* C19: the read lock is held only during a relay's lookup (not while the
\* registry is asked or the envelope is sent), the write lock only inside the
\* write section of a login or a logout, and a returned operation holds
\* nothing; whenever operations are in progress one of them can take a step
\* (no started operation is stuck for ever), and an operation whose peers
\* hold no lock (a relay in its send among them) can always take a step.
C19_LockDiscipline ==
    /\ \A p \in allocServersMutex.r : pc[p] = "rc_read"
    /\ \A p \in Procs :
          /\ pc[p] = "rc_read" => p \in allocServersMutex.r
          /\ (allocServersMutex.w = p) =
                (pc[p] \in {"vt_wait", "vt_range", "lo_wait", "lo_unlock"})
    /\ allocServersMutex.w \in Procs \cup {0}
    /\ (\E p \in Procs : Busy(p)) => \E q \in Procs : Busy(q) /\ ENABLED ProcStep(q)
    /\ \A q \in Procs :
          (/\ Busy(q)
           /\ \A p \in Procs \ {q} :
                 pc[p] \in {"idle", "rc_rlock", "rc_resolve", "rc_send", "rc_done",
                            "vt_load", "vt_lock", "vt_done", "lo_lock", "lo_done",
                            "sc_send", "sc_done", "bc_send", "bc_done"})
          => ENABLED ProcStep(q)

\* C20: a relay that has returned gives true exactly when it invoked SendMsg
\* (once, on its target, whatever SendMsg answered); it gives false and has
\* sent nothing when the service type is out of range, when the account has
\* no entry and when no live target was resolved.
C20_DoneIffSent ==
    \A p \in Procs :
        pc[p] = "rc_done" =>
           /\ done[p] = (sends[p] # <<>>)
           /\ Len(sends[p]) <= 1
           /\ done[p] => target[p] # Nil /\ sends[p][1].node = target[p]
           /\ ( \/ (cmd[p] \div MsgCmdOffset) <= GatewayType
                \/ (cmd[p] \div MsgCmdOffset) >= NodeTypeSize
                \/ err[p]
                \/ target[p] = Nil ) => (~done[p] /\ sends[p] = <<>>)

\* C20 witness: one relay has returned true after a send that failed; another
\* has returned false with nothing sent because no live node of its type was
\* found for an account that has an entry.
C20_Witness ==
    \E p, q \in Procs :
        /\ pc[p] = "rc_done" /\ done[p] /\ Len(sends[p]) = 1 /\ ~sends[p][1].ok
        /\ pc[q] = "rc_done" /\ ~done[q] /\ sends[q] = <<>>
        /\ ~err[q] /\ target[q] = Nil /\ InRange(NType(q))
        /\ account[q] \in DOMAIN allocServers

====
